---- MODULE Spec2Model ----
(***************************************************************************)
(* Model of the deforestation x road-distance pipeline.                    *)
(*                                                                         *)
(* Geometry is rasterised: the plane is a row of square cells of side      *)
(* CellM metres, a geometry is the set of cells it covers, union,          *)
(* intersection and difference are the set operations, and the buffer of   *)
(* a line by d metres is the set of cells whose distance to the line is at *)
(* most d (empty for d <= 0, as a line has no area of its own).            *)
(* Distances are kept in tenths of a kilometre so that 0.5 km and 5.2 km   *)
(* are integers: 5 and 52.                                                 *)
(***************************************************************************)
EXTENDS Integers, Sequences, FiniteSets, TLC

\* ------------------------------------------------------------------ bounds
MaxCell == 13
MaxDists == 3
MaxRoads == 2
MaxChunk == 2

\* Side of one raster cell, in metres, and the raster itself.
CellM == 5 * 500
Plane == 0..MaxCell

\* Python's None (max_km of the outermost ring).
None == -1

\* --dist values offered to the run, in tenths of km: 0, 0.5, 0.8, 5, 10, 20.
DistChoices == {0, 5, 8, 50, 100, 200}

\* The AOI written by 01_prepare_osm_rr.py is one dissolved row; two shapes of
\* it: one block, and a block with a gap (a multipolygon).
AoiChoices == {1..12, (1..6) \cup (8..12)}

\* Road segments of roads_rr.shp (clipped to the AOI by stage 01).
SegChoices ==
  { [geom |-> {3}, fclass |-> "primary"],
    [geom |-> {9, 10}, fclass |-> "track"] }

\* --road-classes: absent (None), or a list of classes to keep.
ClassChoices == {{}, {"primary"}}

VARIABLES
  \* 03_create_buffers.py
  args_dist,    \* args.dist
  chunk_size,   \* args.chunk_size
  road_classes, \* args.road_classes ({} when not given)
  aoi,          \* the AOI geometry
  roads_m,      \* the road segments that are buffered
  pc,           \* position of main()
  dists_km,     \* sorted(set(args.dist))
  di,           \* index in dists_km of the distance being processed
  ci,           \* i of buffer_in_chunks' loop
  parts,        \* parts of buffer_in_chunks
  buffers,      \* buffers of main(): <<[d, geom], ...>>
  buf_files,    \* roads_buffer_<n>km.shp files written: name -> [dist_km, geom]
  ring_file,    \* buffer_rings.shp: <<>> until written, then <<rings>>
  log,          \* what info()/warn()/err() printed
  \* the overlay scripts and 06_build_duckdb.py
  script,         \* which overlay script runs
  rings_shp,      \* buffer_rings.shp as read: the ring rows
  prodes_shp,     \* deforestation_rr.shp as read: the feature rows
  prodes_cols,    \* its attribute columns
  overlay_raises, \* whether gpd.overlay raises on these geometries
  year_min,       \* args.year_min of 04_analyze_deforestation.py
  year_max,       \* args.year_max
  class_keep,     \* args.class_keep ({} when not given)
  opc,            \* position of the overlay script
  prodes,         \* the working deforestation rows
  rings,          \* the working ring rows
  path,           \* which overlay path produced inter
  inter,          \* the intersection rows
  out_files,      \* output files written: name -> content
  dpc,            \* position of 06_build_duckdb.py
  db,             \* tables of intersections.duckdb: name -> rows
  \* the consumers of the store: app.py and doc.py
  db_runs,        \* how many times 06_build_duckdb.py has run
  cpc,            \* position of the consumer: idle, done, stopped, crash
  cons,           \* which consumer ran, with its arguments
  report,         \* the tables the consumer computed
  applied_filters, \* st.session_state.applied_filters of the dashboard
  \* the stages as processes over the files on disk
  disk,           \* the paths that exist
  run,            \* the last stage run: what it lacked, said and wrote
  open_cons,      \* how many connections to the store are open
  query           \* the last query of a consumer: who asked, how it ended

rvars == <<args_dist, chunk_size, road_classes, aoi, roads_m, pc, dists_km,
           di, ci, parts, buffers, buf_files, ring_file, log>>

ovars == <<script, rings_shp, prodes_shp, prodes_cols, overlay_raises,
           year_min, year_max, class_keep, opc, prodes, rings, path, inter,
           out_files, dpc, db>>

cvars == <<db_runs, cpc, cons, report, applied_filters>>

svars == <<disk, run, open_cons, query>>

vars == <<rvars, ovars, cvars, svars>>

\* ------------------------------------------------------------- helpers
Abs(x) == IF x < 0 THEN -x ELSE x

Range(s) == {s[k] : k \in DOMAIN s}

Min(a, b) == IF a < b THEN a ELSE b

SetMin(S) == CHOOSE x \in S : \A y \in S : x <= y

\* sorted(S) for a set of numbers.
RECURSIVE Sorted(_)
Sorted(S) == IF S = {} THEN <<>>
             ELSE <<SetMin(S)>> \o Sorted(S \ {SetMin(S)})

\* All sequences over S of length lo..hi.
SeqsUpTo(S, lo, hi) == UNION {[1..n -> S] : n \in lo..hi}

\* int(d) of a distance held in tenths of km.
IntKm(d) == d \div 10

\* shapely: geometry.buffer(d_m) of a line.
Buffer(geom, d_m) ==
  IF d_m <= 0 THEN {}
  ELSE {c \in Plane : \E s \in geom : Abs(c - s) * CellM <= d_m}

\* shapely.ops.unary_union of a sequence of geometries.
unary_union(geoms) == UNION Range(geoms)

\* filter_by_fclass (the roads file always carries fclass).
filter_by_fclass(roads, keep) == SelectSeq(roads, LAMBDA r : r.fclass \in keep)

\* ------------------------------------------------- buffer_in_chunks
\* gpd.overlay(lot_gdf, aoi, how="intersection"): the rows of the result, one
\* for the single AOI row when the lot meets it.
LotClipSymDiff(lot_union, aoi_m) ==
  IF (lot_union \ aoi_m) \cup (aoi_m \ lot_union) = {} THEN <<>>
  ELSE <<(lot_union \ aoi_m) \cup (aoi_m \ lot_union)>>

LotClip(lot_union, aoi_m) ==
  IF lot_union \cap aoi_m = {} THEN <<>> ELSE <<lot_union \cap aoi_m>>

\* One pass of the loop body for the batch i:j, giving the new parts.
ChunkBodyOverwrite(rds, aoi_m, d_m, i, j, ps) ==
  LET buf_geoms == [k \in 1..(j - i) |-> Buffer(rds[i + k].geom, d_m)]
      lot_clip == LotClip(unary_union(buf_geoms), aoi_m)
  IN IF lot_clip # <<>> THEN <<lot_clip[1]>> ELSE ps

ChunkBody(rds, aoi_m, d_m, i, j, ps) ==
  LET buf_geoms == [k \in 1..(j - i) |-> Buffer(rds[i + k].geom, d_m)]
      lot_union == unary_union(buf_geoms)
      lot_clip == LotClip(lot_union, aoi_m)
  IN IF lot_clip # <<>> THEN Append(ps, lot_clip[1]) ELSE ps

\* ------------------------------------------------------------- main
\* dists_km = sorted(set(args.dist))
RECURSIVE InsertSorted(_, _)
InsertSorted(s, x) ==
  IF s = <<>> THEN <<x>>
  ELSE IF x < Head(s) THEN <<x>> \o s
  ELSE <<Head(s)>> \o InsertSorted(Tail(s), x)

RECURSIVE SortKeepDuplicates(_)
SortKeepDuplicates(dist) ==
  IF dist = <<>> THEN <<>>
  ELSE InsertSorted(SortKeepDuplicates(Tail(dist)), Head(dist))

RECURSIVE DedupKeepOrder(_)
DedupKeepOrder(dist) ==
  IF dist = <<>> THEN <<>>
  ELSE LET init == DedupKeepOrder(SubSeq(dist, 1, Len(dist) - 1))
           x == dist[Len(dist)]
       IN IF x \in Range(init) THEN init ELSE Append(init, x)

NormDists(dist) == Sorted(Range(dist))

\* Lines 114-116 and 121: a None result is skipped, any other is appended.
KeepEmptyBuffer(bufs, d, ps) == Append(bufs, [d |-> d, geom |-> unary_union(ps)])

KeepBuffer(bufs, d, ps) ==
  IF ps = <<>> THEN bufs
  ELSE Append(bufs, [d |-> d, geom |-> unary_union(ps)])

\* f"roads_buffer_{int(d)}km.shp"
BufferFileName(d) == "roads_buffer_" \o ToString(IntKm(d)) \o "km.shp"

\* Lines 126-140: the rings from the buffers and the AOI.
RingsNoDifference(bufs, aoi_m) ==
  LET n == Len(bufs)
      first == [ring_id |-> "0-" \o ToString(IntKm(bufs[1].d)) \o "km",
                min_km |-> 0, max_km |-> bufs[1].d, geometry |-> bufs[1].geom]
      mid == [k \in 1..(n - 1) |->
                [ring_id |-> ToString(IntKm(bufs[k].d)) \o "-"
                               \o ToString(IntKm(bufs[k + 1].d)) \o "km",
                 min_km |-> bufs[k].d, max_km |-> bufs[k + 1].d,
                 geometry |-> bufs[k + 1].geom]]
      last == [ring_id |-> ">" \o ToString(IntKm(bufs[n].d)) \o "km",
               min_km |-> bufs[n].d, max_km |-> None,
               geometry |-> aoi_m \ bufs[n].geom]
  IN <<first>> \o mid \o <<last>>

BuildRings(bufs, aoi_m) ==
  LET n == Len(bufs)
      first == [ring_id |-> "0-" \o ToString(IntKm(bufs[1].d)) \o "km",
                min_km |-> 0, max_km |-> bufs[1].d, geometry |-> bufs[1].geom]
      mid == [k \in 1..(n - 1) |->
                [ring_id |-> ToString(IntKm(bufs[k].d)) \o "-"
                               \o ToString(IntKm(bufs[k + 1].d)) \o "km",
                 min_km |-> bufs[k].d, max_km |-> bufs[k + 1].d,
                 geometry |-> bufs[k + 1].geom \ bufs[k].geom]]
      last == [ring_id |-> ">" \o ToString(IntKm(bufs[n].d)) \o "km",
               min_km |-> bufs[n].d, max_km |-> None,
               geometry |-> aoi_m \ bufs[n].geom]
  IN <<first>> \o mid \o <<last>>

\* The overlay scripts and 06_build_duckdb.py not started, nothing read.
\* No consumer of the store has run, and the store was never built.
NoRun == [who |-> "none"]

NoReport == [kind |-> "none"]

\* "applied_filters" not in st.session_state
NoFilters == [years |-> <<>>, rings |-> {}, municipios |-> {}, set |-> FALSE]

ConsumersIdle ==
  /\ db_runs = 0
  /\ cpc = "idle"
  /\ cons = NoRun
  /\ report = NoReport
  /\ applied_filters = NoFilters

\* The stage-level view is not in use.
NoQuery == [who |-> "none"]

StagesIdle ==
  /\ disk = {}
  /\ run = [stage |-> "none"]
  /\ open_cons = 0
  /\ query = NoQuery

OverlayIdle ==
  /\ script = "none"
  /\ rings_shp = <<>>
  /\ prodes_shp = <<>>
  /\ prodes_cols = {}
  /\ overlay_raises = FALSE
  /\ year_min = None
  /\ year_max = None
  /\ class_keep = {}
  /\ opc = "idle"
  /\ prodes = {}
  /\ rings = {}
  /\ path = "none"
  /\ inter = {}
  /\ out_files = [f \in {} |-> {}]
  /\ dpc = "idle"
  /\ db = [t \in {} |-> {}]

\* The state before main() runs: the command line and the two input files.
InitRings ==
  /\ OverlayIdle
  /\ ConsumersIdle
  /\ StagesIdle
  /\ args_dist \in SeqsUpTo(DistChoices, 1, MaxDists)
  /\ chunk_size \in 1..MaxChunk
  /\ road_classes \in ClassChoices
  /\ aoi \in AoiChoices
  /\ roads_m \in SeqsUpTo(SegChoices, 0, MaxRoads)
  /\ pc = "start"
  /\ dists_km = <<>>
  /\ di = 0
  /\ ci = 0
  /\ parts = <<>>
  /\ buffers = <<>>
  /\ buf_files = [f \in {} |-> {}]
  /\ ring_file = <<>>
  /\ log = <<>>

\* Lines 92-109: arguments, inputs, the optional class filter, the distances.
Load ==
  /\ pc = "start"
  /\ LET roads == IF road_classes # {}
                  THEN filter_by_fclass(roads_m, road_classes) ELSE roads_m
     IN IF road_classes # {} /\ roads = <<>>
        THEN /\ pc' = "error"
             /\ log' = Append(log, [kind |-> "err", what |-> "fclass"])
             /\ UNCHANGED <<roads_m, dists_km, di>>
        ELSE /\ roads_m' = roads
             /\ dists_km' = NormDists(args_dist)
             /\ di' = 1
             /\ pc' = "dist_loop"
             /\ log' = log
  /\ UNCHANGED <<args_dist, chunk_size, road_classes, aoi, ci, parts, buffers,
                 buf_files, ring_file>>
  /\ UNCHANGED <<ovars, cvars, svars>>

\* Lines 110-113 and 70-71: the next distance enters buffer_in_chunks.
EnterBuffer ==
  /\ pc = "dist_loop"
  /\ di <= Len(dists_km)
  /\ ci' = 0
  /\ parts' = <<>>
  /\ pc' = "chunk"
  /\ UNCHANGED <<args_dist, chunk_size, road_classes, aoi, roads_m, dists_km,
                 di, buffers, buf_files, ring_file, log>>
  /\ UNCHANGED <<ovars, cvars, svars>>

\* A batch that always runs to the last segment.
BatchEndWhole(i, c, total) == total

\* j = min(i + chunk_size, total)
BatchEnd(i, c, total) == Min(i + c, total)

\* Lines 72-85: one batch i:j is buffered, unioned, clipped and appended.
ChunkBatch ==
  /\ pc = "chunk"
  /\ ci < Len(roads_m)
  /\ LET i == ci
         j == BatchEnd(ci, chunk_size, Len(roads_m))
         d == dists_km[di]
     IN /\ parts' = ChunkBody(roads_m, aoi, d * 100, i, j, parts)
        /\ log' = Append(log, [kind |-> "lot", d |-> d, i |-> i, j |-> j])
        /\ ci' = ci + chunk_size
  /\ UNCHANGED <<args_dist, chunk_size, road_classes, aoi, roads_m, pc,
                 dists_km, di, buffers, buf_files, ring_file>>
  /\ UNCHANGED <<ovars, cvars, svars>>

\* Lines 87-89 and 114-121: buffer_in_chunks returns; an empty result is
\* warned about and skipped, any other is written to its file and kept.
ChunkReturn ==
  /\ pc = "chunk"
  /\ ci >= Len(roads_m)
  /\ LET d == dists_km[di]
     IN /\ buffers' = KeepBuffer(buffers, d, parts)
        /\ IF parts = <<>>
           THEN /\ log' = Append(log, [kind |-> "warn", d |-> d])
                /\ UNCHANGED buf_files
           ELSE LET name == BufferFileName(d)
                    row == [dist_km |-> d, geom |-> unary_union(parts)]
                IN /\ buf_files' =
                        [f \in DOMAIN buf_files \cup {name} |->
                           IF f = name THEN row ELSE buf_files[f]]
                   /\ log' = log
  /\ di' = di + 1
  /\ pc' = "dist_loop"
  /\ UNCHANGED <<args_dist, chunk_size, road_classes, aoi, roads_m, dists_km,
                 ci, parts, ring_file>>
  /\ UNCHANGED <<ovars, cvars, svars>>

\* Lines 123-124: no buffer at all is fatal.
NoBuffers ==
  /\ pc = "dist_loop"
  /\ di > Len(dists_km)
  /\ buffers = <<>>
  /\ pc' = "error"
  /\ log' = Append(log, [kind |-> "err", what |-> "no buffer"])
  /\ UNCHANGED <<args_dist, chunk_size, road_classes, aoi, roads_m, dists_km,
                 di, ci, parts, buffers, buf_files, ring_file>>
  /\ UNCHANGED <<ovars, cvars, svars>>

\* Lines 126-149: the rings are built and written.
WriteRings ==
  /\ pc = "dist_loop"
  /\ di > Len(dists_km)
  /\ buffers # <<>>
  /\ ring_file' = <<BuildRings(buffers, aoi)>>
  /\ pc' = "done"
  /\ UNCHANGED <<args_dist, chunk_size, road_classes, aoi, roads_m, dists_km,
                 di, ci, parts, buffers, buf_files, log>>
  /\ UNCHANGED <<ovars, cvars, svars>>

Next ==
  \/ Load
  \/ EnterBuffer
  \/ ChunkBatch
  \/ ChunkReturn
  \/ NoBuffers
  \/ WriteRings

Spec == InitRings /\ [][Next]_vars

\* ------------------------------------------------ ring builder: claims
Rings == ring_file[1]

RingGeoms == {Rings[k].geometry : k \in DOMAIN Rings}

\* The distances whose buffer was warned about as empty.
Warned == {log[k].d : k \in {n \in DOMAIN log : log[n].kind = "warn"}}

Terminal == pc \in {"done", "error"}

StrictlyAscending(s) == \A a, b \in DOMAIN s : a < b => s[a] < s[b]

\* The single non-chunked result: every segment buffered, one union, one clip.
NonChunked(rds, aoi_m, d_m) ==
  UNION {Buffer(rds[k].geom, d_m) : k \in DOMAIN rds} \cap aoi_m

\* C1: whenever main() has written the ring file, the ring geometries are
\* pairwise non-overlapping and their union is the AOI.
C1_RingsPartitionAoi ==
  pc = "done" =>
    /\ \A a, b \in DOMAIN Rings :
         a # b => Rings[a].geometry \cap Rings[b].geometry = {}
    /\ UNION RingGeoms = aoi

\* C1 witness: a written ring file of four rings, none of them empty, for an
\* ascending list of distinct positive distances.
C1_Witness ==
  /\ pc = "done"
  /\ args_dist = dists_km
  /\ Len(Rings) = 4
  /\ \A k \in DOMAIN Rings : Rings[k].geometry # {}

\* C2: when buffer_in_chunks has run its last batch, whatever the chunk size,
\* the union of its parts is the single non-chunked buffer-union-clip, and it
\* returns None exactly when that geometry is empty; so is every buffer kept.
C2_ChunkingIsInvisible ==
  /\ (pc = "chunk" /\ ci >= Len(roads_m)) =>
       /\ unary_union(parts) = NonChunked(roads_m, aoi, dists_km[di] * 100)
       /\ (parts = <<>>) = (NonChunked(roads_m, aoi, dists_km[di] * 100) = {})
  /\ \A k \in DOMAIN buffers :
       buffers[k].geom = NonChunked(roads_m, aoi, buffers[k].d * 100)

\* C2 witness: two segments buffered one per batch, both batches kept, and
\* the buffer of the distance recorded.
C2_Witness ==
  /\ pc = "dist_loop"
  /\ chunk_size = 1
  /\ Len(roads_m) = 2
  /\ Len(parts) = 2
  /\ parts[1] # parts[2]
  /\ buffers # <<>>

\* C3: of two buffers kept by main(), the one of the smaller distance is
\* contained in the one of the larger distance.
C3_BuffersNested ==
  \A a, b \in DOMAIN buffers :
    buffers[a].d < buffers[b].d => buffers[a].geom \subseteq buffers[b].geom

\* C3 witness: three buffers, each strictly inside the next.
C3_Witness ==
  /\ Len(buffers) = 3
  /\ \A k \in 1..2 : /\ buffers[k].geom \subseteq buffers[k + 1].geom
                     /\ buffers[k].geom # buffers[k + 1].geom

\* A distance as the claim writes it in a label: 5 for 5 km, 0.5 for 0.5 km.
KmText(d) ==
  IF d % 10 = 0 THEN ToString(d \div 10)
  ELSE ToString(d \div 10) \o "." \o ToString(d % 10)

\* C6 (as claimed): for n distinct ascending distances that each gave a
\* buffer, the ring file holds n+1 rings named 0-d_1km, d_(k-1)-d_kkm, >d_nkm.
C6_RingIdsNameTheDistances ==
  (pc = "done" /\ args_dist = dists_km /\ Len(buffers) = Len(dists_km)) =>
    LET n == Len(dists_km)
    IN /\ Len(Rings) = n + 1
       /\ Rings[1].ring_id = "0-" \o KmText(dists_km[1]) \o "km"
       /\ \A k \in 2..n :
            Rings[k].ring_id =
              KmText(dists_km[k - 1]) \o "-" \o KmText(dists_km[k]) \o "km"
       /\ Rings[n + 1].ring_id = ">" \o KmText(dists_km[n]) \o "km"

\* C7: in a written ring file min_km strictly increases along the rings, the
\* first ring starts at 0, and the last ring alone has max_km = None.
C7_RingsOrdered ==
  pc = "done" =>
    /\ \A a, b \in DOMAIN Rings : a < b => Rings[a].min_km < Rings[b].min_km
    /\ Rings[1].min_km = 0
    /\ \A k \in DOMAIN Rings : (Rings[k].max_km = None) = (k = Len(Rings))

\* C7 witness: a ring file of three rings written for a list given out of
\* order.
C7_Witness ==
  /\ pc = "done"
  /\ Len(Rings) = 3
  /\ ~StrictlyAscending(args_dist)

\* C8 (as claimed): a --dist list that is out of order or repeats a distance
\* ends the run in error, with no batch buffered and no file written.
C8_BadListFailsFast ==
  (Terminal /\ ~StrictlyAscending(args_dist)) =>
    /\ pc = "error"
    /\ \A k \in DOMAIN log : log[k].kind # "lot"
    /\ DOMAIN buf_files = {}
    /\ ring_file = <<>>

\* C8 (amended): the list is never rejected; past the load step main() works
\* on its sorted, de-duplicated form, and the run ends in error only when no
\* buffer at all was produced.
C8_ListIsNormalised ==
  /\ pc \in {"dist_loop", "chunk", "done"} =>
       /\ StrictlyAscending(dists_km)
       /\ Range(dists_km) = Range(args_dist)
  /\ pc = "error" => buffers = <<>>
  /\ pc = "done" => [k \in DOMAIN buffers |-> buffers[k].d]
                      = Sorted(Range(args_dist) \ Warned)

\* C8 witness: a list with a repeated distance, given in descending order,
\* whose run wrote the ring file.
C8_Witness ==
  /\ pc = "done"
  /\ Len(args_dist) = 3
  /\ Len(dists_km) = 2
  /\ args_dist[1] > args_dist[3]

MaxFeat == 2

\* How many times 06_build_duckdb.py is run over one feature file.
MaxBuilds == 2

\* Column-name and class-name case folding, for the names of this model.
Lower(c) == IF c = "YEAR" THEN "year" ELSE c

Upper(c) == IF c = "desmatamento" THEN "DESMATAMENTO" ELSE c

\* No column found (Python's None for a column name).
NoCol == ""

\* A ring file as 03_create_buffers.py writes it for one road, run in a
\* single batch.
RECURSIVE BuffersOf(_, _, _)
BuffersOf(rds, aoi_m, dists) ==
  IF dists = <<>> THEN <<>>
  ELSE LET d == dists[Len(dists)]
       IN KeepBuffer(BuffersOf(rds, aoi_m, SubSeq(dists, 1, Len(dists) - 1)),
                     d, ChunkBody(rds, aoi_m, d * 100, 0, Len(rds), <<>>))

RingFileOf(aoi_m, rds, dists) == BuildRings(BuffersOf(rds, aoi_m, dists), aoi_m)

RingFileChoices ==
  {RingFileOf(a, <<[geom |-> {3}, fclass |-> "primary"]>>, <<50, 100>>) :
     a \in AoiChoices}
    \cup {RingFileOf(1..12, <<[geom |-> {6}, fclass |-> "primary"]>>,
                     <<50, 100>>)}

\* Rows of deforestation_rr.shp; year in tenths of a year (20196 is 2019.6),
\* None where it is missing.
FeatChoices ==
  { [geometry |-> {2, 3}, year |-> 20200, main_class |-> "DESMATAMENTO"],
    [geometry |-> 4..8, year |-> 20190, main_class |-> "DESMATAMENTO"],
    [geometry |-> {2, 11}, year |-> None, main_class |-> "RESIDUO"],
    [geometry |-> {7}, year |-> 20196, main_class |-> "desmatamento"],
    [geometry |-> {12, 13}, year |-> 20200, main_class |-> "RESIDUO"],
    [geometry |-> {}, year |-> 20200, main_class |-> "DESMATAMENTO"] }

ColsChoices ==
  {{"year", "main_class"}, {"YEAR"}, {"main_class"}, {"year", "area_ha"}}

\* find_year_col, and the same search inlined in the other scripts.
find_year_col(cols) ==
  IF \E c \in cols : Lower(c) = "year"
  THEN CHOOSE c \in cols : Lower(c) = "year"
  ELSE NoCol

\* gpd.read_file of the deforestation file: src is the row number (kept by
\* the model to tell the rows of one source feature).
LoadProdes(file, cols) ==
  {[src |-> k,
    geometry |-> file[k].geometry,
    year |-> IF find_year_col(cols) # NoCol THEN file[k].year ELSE None,
    main_class |-> IF "main_class" \in cols THEN file[k].main_class ELSE ""] :
     k \in DOMAIN file}

\* rings[["ring_id", "geometry"]]
RingRows(file) ==
  {[ring_id |-> file[k].ring_id, geometry |-> file[k].geometry] :
     k \in DOMAIN file}

\* geometry.area / 10_000.0
AreaHa(geom) == (Cardinality(geom) * CellM * CellM) \div 10000

RECURSIVE SumArea(_)
SumArea(rows) ==
  IF rows = {} THEN 0
  ELSE LET r == CHOOSE x \in rows : TRUE
       IN r.area_ha + SumArea(rows \ {r})

\* The single parts (polygons) of a geometry: its maximal runs of cells.
Components(geom) ==
  {a..b : <<a, b>> \in
     {p \in geom \X geom :
        /\ p[1] <= p[2]
        /\ (p[1]..p[2]) \subseteq geom
        /\ (p[1] - 1) \notin geom
        /\ (p[2] + 1) \notin geom}}

\* A sanitiser that drops the null geometries but explodes nothing.
fix_geoms_unexploded(rows) == {r \in rows : r.geometry # {}}

\* _fix_geoms: raster geometries are valid, so make_valid leaves them; rows
\* are exploded into single polygons and empty or null geometries dropped.
fix_geoms(rows) ==
  UNION {{[r EXCEPT !.geometry = c] : c \in Components(r.geometry)} :
           r \in rows}

\* geometry.envelope
Envelope(geom) ==
  IF geom = {} THEN {}
  ELSE (CHOOSE a \in geom : \A x \in geom : a <= x)
         ..(CHOOSE b \in geom : \A x \in geom : b >= x)

\* gpd.clip(gdf, mask)
Clip(rows, mask) ==
  {[r EXCEPT !.geometry = r.geometry \cap mask] :
     r \in {x \in rows : x.geometry \cap mask # {}}}

\* gpd.overlay(df, rings, how="intersection"): one row for every feature and
\* ring that meet, with the attributes of both and the common geometry.
OverlayWholeFeature(rows, rgs) ==
  {[src |-> p[1].src, year |-> p[1].year, main_class |-> p[1].main_class,
    ring_id |-> p[2].ring_id, geometry |-> p[1].geometry] :
     p \in {q \in rows \X rgs : q[1].geometry \cap q[2].geometry # {}}}

Overlay(rows, rgs) ==
  {[src |-> p[1].src, year |-> p[1].year, main_class |-> p[1].main_class,
    ring_id |-> p[2].ring_id,
    geometry |-> p[1].geometry \cap p[2].geometry] :
     p \in {q \in rows \X rgs : q[1].geometry \cap q[2].geometry # {}}}

\* A clip loop that tags the rows meeting a ring but leaves them whole.
ClipPartsUnclipped(rows, rgs) ==
  {{[src |-> r.src, year |-> r.year, main_class |-> r.main_class,
     ring_id |-> g.ring_id, geometry |-> r.geometry] :
       r \in {x \in rows : x.geometry \cap g.geometry # {}}} : g \in rgs} \ {{}}

\* The fallback loop: per ring, the clipped rows tagged with its ring_id;
\* parts holds the non-empty results.
ClipParts(rows, rgs) ==
  {{[src |-> c.src, year |-> c.year, main_class |-> c.main_class,
     ring_id |-> g.ring_id, geometry |-> c.geometry] :
       c \in Clip(rows, g.geometry)} : g \in rgs} \ {{}}

\* An area column that is computed only when the input brought none: with an
\* input area_ha the rows keep the value of their source feature.
WithInheritedArea(rows) ==
  {[src |-> r.src, year |-> r.year, main_class |-> r.main_class,
    ring_id |-> r.ring_id, geometry |-> r.geometry,
    area_ha |-> IF "area_ha" \in prodes_cols
                THEN AreaHa(prodes_shp[r.src].geometry)
                ELSE AreaHa(r.geometry)] : r \in rows}

\* inter["area_ha"] = inter.geometry.area / 10_000.0
WithArea(rows) ==
  {[src |-> r.src, year |-> r.year, main_class |-> r.main_class,
    ring_id |-> r.ring_id, geometry |-> r.geometry,
    area_ha |-> AreaHa(r.geometry)] : r \in rows}

\* round() of a year held in tenths, half to even.
Round10(v) ==
  LET q == v \div 10
      r == v % 10
  IN 10 * (IF r < 5 THEN q
           ELSE IF r > 5 THEN q + 1
           ELSE IF q % 2 = 0 THEN q ELSE q + 1)

\* astype(float).round().astype(int) inside try/except: with a missing year
\* the cast raises and the column is left as it was.
NormalizeYear(rows) ==
  IF \E r \in rows : r.year = None THEN rows
  ELSE {[r EXCEPT !.year = Round10(r.year)] : r \in rows}

YearDtype(rows) == IF \E r \in rows : r.year = None THEN "float" ELSE "int"

\* A selection that keeps every column of the overlay result.
KeepEveryCol(rows) == rows

\* inter[["ring_id", year_col, "area_ha", "geometry"]]
KeepCols(rows) ==
  {[src |-> r.src, ring_id |-> r.ring_id, year |-> r.year,
    area_ha |-> r.area_ha, geometry |-> r.geometry] : r \in rows}

\* pandas groupby(["ring_id", year_col])["area_ha"].sum(): rows whose key is
\* missing are left out (dropna).
GroupByRingYear(rows) ==
  {[ring_id |-> k[1], year |-> k[2],
    area_ha |-> SumArea({r \in rows : r.ring_id = k[1] /\ r.year = k[2]})] :
     k \in {<<r.ring_id, r.year>> : r \in {x \in rows : x.year # None}}}

\* pandas groupby(["ring_id"])["area_ha"].sum()
GroupByRing(rows) ==
  {[ring_id |-> id, area_ha |-> SumArea({r \in rows : r.ring_id = id})] :
     id \in {r.ring_id : r \in rows}}

\* out_files with file name holding content.
Written(files, name, content) ==
  [f \in DOMAIN files \cup {name} |-> IF f = name THEN content ELSE files[f]]

\* CAST(year AS INT) of a year held in tenths; NULL stays NULL.
YearAsInt(y) == IF y = None THEN None ELSE Round10(y)

\* A by_ring_year with one row for every feature row, not grouped.
DbByRingYearUngrouped(rows) ==
  {[ring_id |-> r.ring_id, year |-> YearAsInt(r.year), area_ha |-> r.area_ha] :
     r \in rows}

\* 06_build_duckdb.py's two statements: GROUP BY keeps the NULL year.
DbByRingYear(rows) ==
  LET cast(y) == IF y = None THEN None ELSE Round10(y)
  IN {[ring_id |-> k[1], year |-> k[2],
       area_ha |-> SumArea({r \in rows : r.ring_id = k[1]
                                          /\ cast(r.year) = k[2]})] :
        k \in {<<r.ring_id, cast(r.year)>> : r \in rows}}

DbByRing(tbl) == GroupByRing(tbl)

\* The ring builder not running (its variables are not read here).
RingsIdle ==
  /\ args_dist = <<>>
  /\ chunk_size = 1
  /\ road_classes = {}
  /\ aoi = {}
  /\ roads_m = <<>>
  /\ pc = "idle"
  /\ dists_km = <<>>
  /\ di = 0
  /\ ci = 0
  /\ parts = <<>>
  /\ buffers = <<>>
  /\ buf_files = [f \in {} |-> {}]
  /\ ring_file = <<>>
  /\ log = <<>>

\* One of the overlay scripts is about to run on a ring file and a
\* deforestation file.
InitOverlay ==
  /\ RingsIdle
  /\ ConsumersIdle
  /\ StagesIdle
  /\ script \in {"04_intersection", "04_analyze", "05_precompute"}
  /\ rings_shp \in RingFileChoices
  /\ prodes_shp \in SeqsUpTo(FeatChoices, 0, MaxFeat)
  /\ prodes_cols \in ColsChoices
  /\ overlay_raises \in BOOLEAN
  /\ year_min \in (IF script = "04_analyze" THEN {None, 2020} ELSE {None})
  /\ year_max \in (IF script = "04_analyze" THEN {None, 2019} ELSE {None})
  /\ class_keep \in (IF script = "04_analyze" THEN {{}, {"desmatamento"}} ELSE {{}})
  /\ opc = "start"
  /\ prodes = {}
  /\ rings = {}
  /\ path = "none"
  /\ inter = {}
  /\ out_files = [f \in {} |-> {}]
  /\ dpc = "idle"
  /\ db = [t \in {} |-> {}]

OInputs == <<script, rings_shp, prodes_shp, prodes_cols, overlay_raises,
             year_min, year_max, class_keep>>

\* ---------------------------------------------------- 04_intersection.py
\* Lines 71-83: both files are read; a missing year column is fatal.
A_Load ==
  /\ script = "04_intersection"
  /\ opc = "start"
  /\ rings' = RingRows(rings_shp)
  /\ prodes' = LoadProdes(prodes_shp, prodes_cols)
  /\ opc' = IF find_year_col(prodes_cols) = NoCol THEN "error" ELSE "bbox"
  /\ UNCHANGED <<OInputs, path, inter, out_files, dpc, db>>
  /\ UNCHANGED <<rvars, cvars, svars>>

\* Line 86: unary_union is called but never imported by this script, so the
\* call raises NameError outside any try: the run ends there.
A_Bbox ==
  /\ script = "04_intersection"
  /\ opc = "bbox"
  /\ opc' = "crash"
  /\ UNCHANGED <<OInputs, prodes, rings, path, inter, out_files, dpc, db>>
  /\ UNCHANGED <<rvars, cvars, svars>>

\* -------------------------------------------- 04_analyze_deforestation.py
\* Lines 89-105: the year and class filters.
FilterProdes(rows, cols, ymin, ymax, keep) ==
  LET a == IF ymin # None
           THEN {r \in rows : r.year # None /\ r.year >= ymin * 10} ELSE rows
      b == IF ymax # None
           THEN {r \in a : r.year # None /\ r.year <= ymax * 10} ELSE a
  IN IF keep # {} /\ "main_class" \in cols
     THEN {r \in b : Upper(r.main_class) \in {Upper(k) : k \in keep}}
     ELSE b

\* Lines 69-108: read, check the year column, filter; no year column and an
\* empty filtered set are both fatal.
B_Load ==
  /\ script = "04_analyze"
  /\ opc = "start"
  /\ rings' = RingRows(rings_shp)
  /\ LET rows == LoadProdes(prodes_shp, prodes_cols)
         kept == FilterProdes(rows, prodes_cols, year_min, year_max, class_keep)
     IN IF find_year_col(prodes_cols) = NoCol
        THEN /\ opc' = "error"
             /\ prodes' = rows
        ELSE /\ prodes' = kept
             /\ opc' = IF kept = {} THEN "error" ELSE "overlay"
  /\ UNCHANGED <<OInputs, path, inter, out_files, dpc, db>>
  /\ UNCHANGED <<rvars, cvars, svars>>

\* Lines 112-128: the overlay, or the clip loop when it raises; an empty
\* result is fatal on either path.
B_Overlay ==
  /\ script = "04_analyze"
  /\ opc = "overlay"
  /\ IF ~overlay_raises
     THEN /\ path' = "primary"
          /\ inter' = Overlay(prodes, rings)
          /\ opc' = IF Overlay(prodes, rings) = {} THEN "error" ELSE "aggregate"
     ELSE /\ path' = "fallback"
          /\ inter' = UNION ClipParts(prodes, rings)
          /\ opc' = IF ClipParts(prodes, rings) = {}
                       \/ UNION ClipParts(prodes, rings) = {}
                    THEN "error" ELSE "aggregate"
  /\ UNCHANGED <<OInputs, prodes, rings, out_files, dpc, db>>
  /\ UNCHANGED <<rvars, cvars, svars>>

\* Lines 130-175: areas, the two tables, the preview and the chart. The
\* chart title takes int(min year) and int(max year) when no bound was
\* given, which raises when every year is missing.
B_Aggregate ==
  /\ script = "04_analyze"
  /\ opc = "aggregate"
  /\ LET rows == WithArea(inter)
         g_year == [columns |-> {"ring_id", find_year_col(prodes_cols), "area_ha"},
                    rows |-> GroupByRingYear(rows)]
         g_tot == [columns |-> {"ring_id", "area_ha"},
                   rows |-> GroupByRing(rows)]
         f1 == Written(out_files, "deforestation_by_ring_year.csv", g_year)
         f2 == Written(f1, "deforestation_by_ring_total.csv", g_tot)
         f3 == Written(f2, "recorte_preview.geojson",
                       [columns |-> prodes_cols \cup {"ring_id", "area_ha", "geometry"},
                        rows |-> rows])
         title_raises == /\ year_min = None \/ year_max = None
                         /\ \A r \in rows : r.year = None
     IN /\ inter' = rows
        /\ IF title_raises
           THEN /\ out_files' = f3
                /\ opc' = "crash"
           ELSE /\ out_files' =
                     Written(f3, "area_por_faixa.png",
                             [columns |-> {"ring_id", "area_ha"},
                              rows |-> GroupByRing(rows)])
                /\ opc' = "done"
  /\ UNCHANGED <<OInputs, prodes, rings, path, dpc, db>>
  /\ UNCHANGED <<rvars, cvars, svars>>

\* ------------------------------------------- 05_precompute_intersections.py
\* Lines 46-55: read, sanitise both sets, clip the deforestation rows to the
\* bounding box of the rings.
P_Load ==
  /\ script = "05_precompute"
  /\ opc = "start"
  /\ LET rgs == fix_geoms(RingRows(rings_shp))
         bbox == Envelope(UNION {g.geometry : g \in rgs})
     IN /\ rings' = rgs
        /\ prodes' = Clip(fix_geoms(LoadProdes(prodes_shp, prodes_cols)), bbox)
  /\ opc' = "overlay"
  /\ UNCHANGED <<OInputs, path, inter, out_files, dpc, db>>
  /\ UNCHANGED <<rvars, cvars, svars>>

\* Line 59: the overlay, outside any try.
P_Overlay ==
  /\ script = "05_precompute"
  /\ opc = "overlay"
  /\ IF overlay_raises
     THEN /\ opc' = "crash"
          /\ UNCHANGED <<path, inter>>
     ELSE /\ opc' = "write"
          /\ path' = "primary"
          /\ inter' = Overlay(prodes, rings)
  /\ UNCHANGED <<OInputs, prodes, rings, out_files, dpc, db>>
  /\ UNCHANGED <<rvars, cvars, svars>>

\* Lines 61-100: empty files for an empty intersection; otherwise the year
\* column is looked up (its absence raises), areas are computed, the year is
\* normalised, and the feature file and the two tables are written.
P_Write ==
  /\ script = "05_precompute"
  /\ opc = "write"
  /\ IF inter = {}
     THEN /\ out_files' =
               Written(Written(Written(out_files,
                 "inter_prodes_rings.parquet",
                 [columns |-> {"ring_id", "year", "area_ha", "geometry"},
                  year_dtype |-> "object", rows |-> {}]),
                 "by_ring_year.csv",
                 [columns |-> {"ring_id", "year", "area_ha"}, rows |-> {}]),
                 "by_ring_total.csv",
                 [columns |-> {"ring_id", "area_ha"}, rows |-> {}])
          /\ opc' = "done"
          /\ inter' = inter
     ELSE IF find_year_col(prodes_cols) = NoCol
     THEN /\ opc' = "crash"
          /\ UNCHANGED <<inter, out_files>>
     ELSE LET rows == KeepCols(NormalizeYear(WithArea(inter)))
              year_col == find_year_col(prodes_cols)
          IN /\ inter' = rows
             /\ out_files' =
                  Written(Written(Written(out_files,
                    "inter_prodes_rings.parquet",
                    [columns |-> {"ring_id", year_col, "area_ha", "geometry"},
                     year_dtype |-> YearDtype(rows), rows |-> rows]),
                    "by_ring_year.csv",
                    [columns |-> {"ring_id", "year", "area_ha"},
                     rows |-> GroupByRingYear(rows)]),
                    "by_ring_total.csv",
                    [columns |-> {"ring_id", "area_ha"},
                     rows |-> GroupByRing(rows)])
             /\ opc' = "done"
  /\ UNCHANGED <<OInputs, prodes, rings, path, dpc, db>>
  /\ UNCHANGED <<rvars, cvars, svars>>

\* ------------------------------------------------------ 06_build_duckdb.py
OverlayEnded == opc \in {"done", "error", "crash"}

\* The whole script, run after an overlay script has ended (and again at
\* will): without the feature file it raises FileNotFoundError; otherwise the
\* tables are created or replaced.
D_Build ==
  /\ OverlayEnded
  /\ dpc \in {"idle", "built"}
  /\ db_runs < MaxBuilds
  /\ db_runs' = db_runs + 1
  /\ IF "inter_prodes_rings.parquet" \notin DOMAIN out_files
     THEN /\ dpc' = "crash"
          /\ db' = db
     ELSE LET pq == out_files["inter_prodes_rings.parquet"]
              by_ring_year == DbByRingYear(pq.rows)
              by_ring == DbByRing(by_ring_year)
              t1 == Written(db, "by_ring_year", by_ring_year)
              t2 == Written(t1, "by_ring", by_ring)
              t3 == IF "by_ring_year.csv" \in DOMAIN out_files
                    THEN Written(t2, "by_ring_year_csv",
                                 out_files["by_ring_year.csv"].rows)
                    ELSE t2
              t4 == IF "by_ring_total.csv" \in DOMAIN out_files
                    THEN Written(t3, "by_ring_csv",
                                 out_files["by_ring_total.csv"].rows)
                    ELSE t3
          IN IF find_year_col(pq.columns) = NoCol
             THEN /\ dpc' = "crash"
                  /\ db' = db
             ELSE /\ dpc' = "built"
                  /\ db' = t4
  /\ UNCHANGED <<OInputs, opc, prodes, rings, path, inter, out_files>>
  /\ UNCHANGED <<rvars, cpc, cons, report, applied_filters, svars>>

\* ------------------------------------------------------ app.py and doc.py
\* RR_Municipios_2024.shp: two municipalities side by side.
MunicipiosShp ==
  { [MUN_NAME |-> "Boa Vista", geometry |-> 0..4],
    [MUN_NAME |-> "Canta", geometry |-> 5..13] }

\* The municipality filter: none, or both municipalities.
MunFilterChoices == {{}, {"Boa Vista", "Canta"}}

\* The years argument of the report: None (here <<>>), or a pair of years.
YearsChoices == {<<>>, <<2020, 2020>>, <<2021, 2022>>}

SetMax(S) == CHOOSE x \in S : \A y \in S : x >= y

\* SELECT MIN(year), MAX(year) FROM by_ring_year: NULL years are skipped,
\* and the result is NULL when no year is left.
MinYear(tbl) ==
  IF {t.year : t \in tbl} \ {None} = {} THEN None
  ELSE SetMin({t.year : t \in tbl} \ {None})

MaxYear(tbl) ==
  IF {t.year : t \in tbl} \ {None} = {} THEN None
  ELSE SetMax({t.year : t \in tbl} \ {None})

\* WHERE year BETWEEN a AND b, and the same test on a data frame.
Between(tbl, a, b) == {t \in tbl : t.year # None /\ a <= t.year /\ t.year <= b}

\* gpd.sjoin(left, mun, how="inner", predicate="intersects"): one row for
\* every feature row and municipality that meet; the row keeps the whole
\* geometry and the area_ha of the feature row.
SJoin(rows, mun) ==
  {[src |-> p[1].src, ring_id |-> p[1].ring_id, year |-> p[1].year,
    area_ha |-> p[1].area_ha, geometry |-> p[1].geometry,
    MUN_NAME |-> p[2].MUN_NAME] :
     p \in {q \in rows \X mun : q[1].geometry \cap q[2].geometry # {}}}

\* groupby("MUN_NAME")["area_ha"].sum()
GroupByMun(rows) ==
  {[MUN_NAME |-> n, area_ha |-> SumArea({r \in rows : r.MUN_NAME = n})] :
     n \in {r.MUN_NAME : r \in rows}}

\* inter["area_ha"] = inter.geometry.area / 10_000.0 on the rows of the
\* feature file.
Recomputed(rows) == {[r EXCEPT !.area_ha = AreaHa(r.geometry)] : r \in rows}

\* The rows of the feature file (gpd.read_parquet).
FeatureRows == out_files["inter_prodes_rings.parquet"].rows

\* The store and the feature file exist.
StoreExists == dpc = "built"

FeatureFileExists == "inter_prodes_rings.parquet" \in DOMAIN out_files

\* build_pdf and build_pdf_bytes up to their tables (the rest lays out the
\* pages): the existence checks, the year bounds read from by_ring_year
\* (int() of a NULL bound raises), the filtered aggregates, and the spatial
\* join of the feature rows with the municipalities.
R_BuildPdf ==
  /\ OverlayEnded
  /\ db_runs > 0
  /\ cpc = "idle"
  /\ \E who \in {"build_pdf", "build_pdf_bytes"}, years \in YearsChoices,
        filtro \in MunFilterChoices :
       /\ cons' = [who |-> who, years |-> years, municipios |-> filtro]
       /\ IF ~StoreExists \/ ~FeatureFileExists
          THEN /\ cpc' = "error"
               /\ report' = report
          ELSE IF MinYear(db["by_ring_year"]) = None
          THEN /\ cpc' = "crash"
               /\ report' = report
          ELSE LET y0 == MinYear(db["by_ring_year"])
                   y1 == MaxYear(db["by_ring_year"])
                   y_min == IF years = <<>> THEN y0
                            ELSE IF y0 > years[1] * 10 THEN y0 ELSE years[1] * 10
                   y_max == IF years = <<>> THEN y1
                            ELSE Min(y1, years[2] * 10)
                   by_ring_year == Between(db["by_ring_year"], y_min, y_max)
                   inter_all == Recomputed(Between(FeatureRows, y_min, y_max))
                   mun == MunicipiosShp
                   bbox == Envelope(UNION {m.geometry : m \in mun})
                   inter_clip == Clip(inter_all, bbox)
                   joined == SJoin(inter_clip, mun)
                   inter_muni == IF filtro # {}
                                 THEN {r \in joined : r.MUN_NAME \in filtro}
                                 ELSE joined
               IN /\ cpc' = "done"
                  /\ report' = [kind |-> "pdf",
                                y_min |-> y_min,
                                y_max |-> y_max,
                                by_ring_year |-> by_ring_year,
                                by_ring |-> GroupByRing(by_ring_year),
                                joined |-> inter_clip,
                                inter_muni |-> inter_muni,
                                muni_total |-> GroupByMun(inter_muni)]
  /\ UNCHANGED <<rvars, ovars, db_runs, applied_filters, svars>>

\* The values the filter form can hand over on a submit: the slider (the
\* years shown, or the whole range) and the ring multiselect (nothing, the
\* rings shown, or all of them).
YearsWidget(cur, y0, y1) == {cur, <<y0, y1>>}

RingsWidget(cur, rings_all) == {{}, cur, rings_all}

\* A form whose values are applied on every run, submitted or not.
AppliedAlways(cur, defaults, submitted, years, rings_sel, mun_sel, rings_all) ==
  [years |-> years,
   rings |-> IF rings_sel # {} THEN rings_sel ELSE rings_all,
   municipios |-> mun_sel, set |-> TRUE]

\* Lines 149-167: the session's filters are created with the defaults when the
\* session has none, and replaced by the form's values when it was submitted
\* (an empty ring selection standing for all rings).
Applied(cur, defaults, submitted, years, rings_sel, mun_sel, rings_all) ==
  IF submitted
  THEN [years |-> years,
        rings |-> IF rings_sel # {} THEN rings_sel ELSE rings_all,
        municipios |-> mun_sel, set |-> TRUE]
  ELSE IF cur = NoFilters THEN defaults ELSE cur

\* One run of app.py from top to bottom. Without the store or the feature
\* file the run is stopped with an error on the page; int() of a NULL year
\* bound raises. Otherwise the session's filters are created or, on a submit
\* of the form, replaced, and the tables are computed with them. The form and
\* the municipality list can only have been used when an earlier run of the
\* session showed them.
App_Rerun ==
  /\ OverlayEnded
  /\ db_runs > 0
  /\ cpc = "idle" \/ cons.who = "app"
  /\ \E submitted \in BOOLEAN, mun_w \in MunFilterChoices :
       /\ applied_filters = NoFilters => (~submitted /\ mun_w = {})
       /\ cons' = [who |-> "app", submitted |-> submitted]
       /\ IF ~StoreExists \/ ~FeatureFileExists
          THEN /\ cpc' = "stopped"
               /\ UNCHANGED <<report, applied_filters>>
          ELSE IF MinYear(db["by_ring_year"]) = None
          THEN /\ cpc' = "crash"
               /\ UNCHANGED <<report, applied_filters>>
          ELSE LET y0 == MinYear(db["by_ring_year"])
                   y1 == MaxYear(db["by_ring_year"])
                   default_years == <<IF y1 - 20 > y0 THEN y1 - 20 ELSE y0, y1>>
                   rings_all == {rings_shp[k].ring_id : k \in DOMAIN rings_shp}
                   default_rings ==
                     IF "0-5km" \in rings_all THEN {"0-5km"}
                     ELSE {CHOOSE id \in rings_all : TRUE}
                   defaults == [years |-> default_years, rings |-> default_rings,
                                municipios |-> mun_w, set |-> TRUE]
                   shown == IF applied_filters = NoFilters THEN defaults
                            ELSE applied_filters
               IN \E years \in YearsWidget(shown.years, y0, y1),
                     rings_w \in RingsWidget(shown.rings, rings_all) :
                    LET now == Applied(applied_filters, defaults, submitted,
                                       years, rings_w, mun_w, rings_all)
                        ymin == now.years[1]
                        ymax == now.years[2]
                        rings_sel == now.rings
                        mun_sel == now.municipios
                        q_year == {t \in Between(db["by_ring_year"], ymin, ymax) :
                                     t.ring_id \in rings_sel}
                        inter_f == {r \in Between(FeatureRows, ymin, ymax) :
                                      r.ring_id \in rings_sel}
                        using_muni_filter == mun_sel # {}
                        mun_gdf == {m \in MunicipiosShp : m.MUN_NAME \in mun_sel}
                        joins == using_muni_filter /\ inter_f # {}
                        inter_muni == IF joins THEN SJoin(inter_f, mun_gdf) ELSE {}
                    IN /\ applied_filters' = now
                       /\ cpc' = "done"
                       /\ report' = [kind |-> "app",
                                     y_min |-> ymin,
                                     y_max |-> ymax,
                                     by_ring_year |-> IF joins
                                                      THEN GroupByRingYear(inter_muni)
                                                      ELSE q_year,
                                     by_ring |-> IF joins THEN GroupByRing(inter_muni)
                                                 ELSE GroupByRing(q_year),
                                     joined |-> IF joins THEN inter_f ELSE {},
                                     inter_muni |-> inter_muni,
                                     muni_total |-> GroupByMun(inter_muni)]
  /\ UNCHANGED <<rvars, ovars, db_runs, svars>>

NextOverlay ==
  \/ A_Load
  \/ A_Bbox
  \/ B_Load
  \/ B_Overlay
  \/ B_Aggregate
  \/ P_Load
  \/ P_Overlay
  \/ P_Write
  \/ D_Build
  \/ R_BuildPdf
  \/ App_Rerun

SpecOverlay == InitOverlay /\ [][NextOverlay]_vars

\* ============================================== the stages over the disk
\* Each script seen as a process over the files on disk: which paths it needs,
\* in the order it opens them, what it says and how it exits when one is not
\* there, and which paths it writes. What a run does with the content of its
\* inputs is modelled above; here a run that found its inputs ends in one of
\* the ways the script can end, each with the files written up to that point.
OsmRoads == "data/osm/gis_osm_roads_free_1.shp"

IbgeDir == "data/external/ibge_uf"

IbgeShp == "data/external/ibge_uf/*.shp"

ProdesRaw == "data/prodes/yearly_deforestation_biome.shp"

AoiPath == "data/processed/roraima_aoi.geojson"

RoadsPath == "data/processed/roads_rr.shp"

ProdesPath == "data/processed/deforestation_rr.shp"

RingsPath == "data/processed/buffers/buffer_rings.shp"

ParquetPath == "data/processed/intersection/inter_prodes_rings.parquet"

CsvRingYear == "data/processed/intersection/by_ring_year.csv"

CsvRing == "data/processed/intersection/by_ring_total.csv"

DbPath == "data/processed/intersection/intersections.duckdb"

\* The paths a run can find on disk before any stage has run here.
InputPaths ==
  {OsmRoads, IbgeDir, IbgeShp, ProdesRaw, AoiPath, RoadsPath, ProdesPath,
   RingsPath, ParquetPath}

\* A shapefile inside a folder that does not exist cannot exist.
DiskChoices == {d \in SUBSET InputPaths : IbgeShp \in d => IbgeDir \in d}

\* What each script needs, in the order of its existence checks and reads.
Reads(stage) ==
  CASE stage = "01_prepare_osm_rr" -> <<OsmRoads, IbgeDir, IbgeShp>>
    [] stage = "02_prepare_prodes_rr" -> <<AoiPath, ProdesRaw>>
    [] stage = "03_create_buffers" -> <<AoiPath, RoadsPath>>
    [] stage = "04_intersection" -> <<RingsPath, ProdesPath>>
    [] stage = "04_analyze_deforestation" -> <<RingsPath, ProdesPath>>
    [] stage = "05_precompute_intersections" -> <<RingsPath, ProdesPath>>
    [] stage = "06_build_duckdb" -> <<ParquetPath>>

\* The ways a run that found its inputs can end: exit status and files
\* written.
Outcomes(stage) ==
  CASE stage = "01_prepare_osm_rr" ->
         {[status |-> 0, wrote |-> {AoiPath, RoadsPath}],
          [status |-> 1, wrote |-> {}]}
    [] stage = "02_prepare_prodes_rr" ->
         {[status |-> 0,
           wrote |-> {ProdesPath,
                      "data/processed/deforestation_rr_preview.geojson"}]}
    [] stage = "03_create_buffers" ->
         {[status |-> 0,
           wrote |-> {"data/processed/buffers/roads_buffer_*km.shp", RingsPath,
                      "data/processed/buffers/buffer_rings_preview.geojson"}],
          [status |-> 1, wrote |-> {}]}
    [] stage = "04_intersection" ->
         {[status |-> 1, wrote |-> {}]}
    [] stage = "04_analyze_deforestation" ->
         {[status |-> 0,
           wrote |-> {"outputs/tabelas/deforestation_by_ring_year.csv",
                      "outputs/tabelas/deforestation_by_ring_total.csv",
                      "outputs/mapas/recorte_preview.geojson",
                      "outputs/graficos/area_por_faixa.png"}],
          [status |-> 1,
           wrote |-> {"outputs/tabelas/deforestation_by_ring_year.csv",
                      "outputs/tabelas/deforestation_by_ring_total.csv",
                      "outputs/mapas/recorte_preview.geojson"}],
          [status |-> 1, wrote |-> {}]}
    [] stage = "05_precompute_intersections" ->
         {[status |-> 0, wrote |-> {ParquetPath, CsvRingYear, CsvRing}],
          [status |-> 1, wrote |-> {}]}
    [] stage = "06_build_duckdb" ->
         {[status |-> 0, wrote |-> {DbPath}]}

\* A loader that never notices a missing path.
LoadSkipsCheck(reads, d) == NoCol

\* The loads in order: the first path that is not on disk, NoCol when all
\* are there (load_gdf's exists() test; gpd.read_file raising in 05).
FirstMissing(reads, d) ==
  IF \A k \in DOMAIN reads : reads[k] \in d THEN NoCol
  ELSE reads[SetMin({k \in DOMAIN reads : reads[k] \notin d})]

\* The path the message gives for a missing path: the path itself, and for
\* the IBGE shapefile (any *.shp of the folder) the folder searched.
NamedFor(p) == IF p = IbgeShp THEN IbgeDir ELSE p

\* One run of a script over the disk.
StageRun(stage) ==
  LET missing == FirstMissing(Reads(stage), disk)
      lacked == {Reads(stage)[k] : k \in DOMAIN Reads(stage)} \ disk
  IN IF missing # NoCol
     THEN /\ run' = [stage |-> stage, status |-> 1, named |-> NamedFor(missing),
                     wrote |-> {}, lacked |-> lacked]
          /\ disk' = disk
          /\ UNCHANGED <<open_cons, query>>
     ELSE \E o \in Outcomes(stage) :
            /\ run' = [stage |-> stage, status |-> o.status, named |-> NoCol,
                       wrote |-> o.wrote, lacked |-> lacked]
            /\ disk' = disk \cup o.wrote
            /\ UNCHANGED <<open_cons, query>>

\* The ways one query can end: with the store on disk it returns its rows or
\* the statement raises; without it duckdb.connect itself raises.
QueryOutcomes(d) ==
  IF DbPath \in d THEN {"returned", "raised"} ELSE {"connect_failed"}

\* A query helper that closes its connection on the normal path only.
CloseOnReturnOnly(open, outcome) ==
  IF outcome = "raised" THEN open + 1 ELSE open

\* The connections open after one query: connect adds one, and the finally
\* clause closes it whether execute returned or raised; a connect that raised
\* opened nothing.
AfterQuery(open, outcome) ==
  IF outcome = "connect_failed" THEN open
  ELSE (open + 1) - 1

\* One call of duck_query (app.py) or read_duck (doc.py).
Query(who) ==
  \E outcome \in QueryOutcomes(disk) :
    /\ query' = [who |-> who, read_only |-> TRUE, outcome |-> outcome]
    /\ open_cons' = AfterQuery(open_cons, outcome)
    /\ UNCHANGED <<disk, run>>

Frame == UNCHANGED <<rvars, ovars, cvars>>

duck_query == Query("duck_query") /\ Frame

read_duck == Query("read_duck") /\ Frame

Run01 == StageRun("01_prepare_osm_rr") /\ Frame

Run02 == StageRun("02_prepare_prodes_rr") /\ Frame

Run03 == StageRun("03_create_buffers") /\ Frame

Run04Intersection == StageRun("04_intersection") /\ Frame

Run04Analyze == StageRun("04_analyze_deforestation") /\ Frame

Run05 == StageRun("05_precompute_intersections") /\ Frame

Run06 == StageRun("06_build_duckdb") /\ Frame

InitStages ==
  /\ RingsIdle
  /\ OverlayIdle
  /\ ConsumersIdle
  /\ disk \in DiskChoices
  /\ run = [stage |-> "none"]
  /\ open_cons = 0
  /\ query = NoQuery

NextStages ==
  \/ Run01
  \/ Run02
  \/ Run03
  \/ Run04Intersection
  \/ Run04Analyze
  \/ Run05
  \/ Run06
  \/ duck_query
  \/ read_duck

SpecStages == InitStages /\ [][NextStages]_vars

\* ---------------------------------------------- overlay scripts: claims
\* The rows handed to the overlay: all rows read, or those the filters kept.
OverlayInput ==
  IF script = "04_analyze"
  THEN FilterProdes(LoadProdes(prodes_shp, prodes_cols), prodes_cols,
                    year_min, year_max, class_keep)
  ELSE LoadProdes(prodes_shp, prodes_cols)

\* The ring partition as a single geometry.
RingUnion == UNION {rings_shp[k].geometry : k \in DOMAIN rings_shp}

\* The intersection rows carry their area.
AreaComputed ==
  \/ script = "05_precompute" /\ opc = "done"
  \/ script = "04_analyze" /\ opc \in {"done", "crash"}

\* C4: once the areas are computed, the area_ha of the intersection rows of
\* one deforestation feature add up to the area of the part of that feature
\* that lies inside the rings.
C4_AreaConserved ==
  AreaComputed =>
    \A f \in OverlayInput :
      SumArea({r \in inter : r.src = f.src}) = AreaHa(f.geometry \cap RingUnion)

\* C4 witness: a feature cut into three rows, one per ring, by the primary
\* overlay, and a feature that lies partly outside the rings.
C4_Witness ==
  /\ AreaComputed
  /\ path = "primary"
  /\ \E f \in OverlayInput :
       Cardinality({r.ring_id : r \in {x \in inter : x.src = f.src}}) = 3
  /\ \E f \in OverlayInput :
       /\ f.geometry \cap RingUnion # {}
       /\ f.geometry \cap RingUnion # f.geometry

\* The totals table gives every ring the sum of its rows in the time series.
TotalsMatchSeries(totals, series) ==
  \A id \in {t.ring_id : t \in totals \cup series} :
    SumArea({t \in totals : t.ring_id = id})
      = SumArea({y \in series : y.ring_id = id})

\* C5 (as claimed): for every ring the totals table equals the time series
\* summed over the years, in the CSV tables of the overlay scripts and in
\* the by_ring / by_ring_year tables of the store.
C5_TotalsEqualSeriesSums ==
  /\ "by_ring_total.csv" \in DOMAIN out_files =>
       TotalsMatchSeries(out_files["by_ring_total.csv"].rows,
                         out_files["by_ring_year.csv"].rows)
  /\ "deforestation_by_ring_total.csv" \in DOMAIN out_files =>
       TotalsMatchSeries(out_files["deforestation_by_ring_total.csv"].rows,
                         out_files["deforestation_by_ring_year.csv"].rows)
  /\ "by_ring" \in DOMAIN db =>
       TotalsMatchSeries(db["by_ring"], db["by_ring_year"])

\* C10 (as claimed): an overlay that produced no row, on either path, ends
\* the run normally with the two tables written and empty.
C10_EmptyIntersectionEndsNormally ==
  (OverlayEnded /\ path # "none" /\ inter = {}) =>
    /\ opc = "done"
    /\ \E yr, tot \in DOMAIN out_files :
         /\ yr # tot
         /\ out_files[yr].rows = {}
         /\ out_files[tot].rows = {}

\* The year and class filters of 04_analyze_deforestation.py emptied a
\* deforestation set that had rows.
FilterLeftNothing ==
  /\ script = "04_analyze"
  /\ find_year_col(prodes_cols) # NoCol
  /\ LoadProdes(prodes_shp, prodes_cols) # {}
  /\ OverlayInput = {}

\* C11 (as claimed): when the filters leave no row, the run ends normally
\* with an empty intersection and both tables written empty.
C11_EmptyFilterGivesEmptyTables ==
  (OverlayEnded /\ FilterLeftNothing) =>
    /\ opc = "done"
    /\ inter = {}
    /\ "deforestation_by_ring_year.csv" \in DOMAIN out_files
    /\ "deforestation_by_ring_total.csv" \in DOMAIN out_files

\* C12 (as claimed): without a year column on the deforestation input every
\* overlay script ends in a fatal error and writes no file.
C12_NoYearColumnIsFatal ==
  (OverlayEnded /\ find_year_col(prodes_cols) = NoCol) =>
    /\ opc \in {"error", "crash"}
    /\ DOMAIN out_files = {}

\* The two tables of 04_analyze_deforestation.py, as written.
AnalyzeTables ==
  <<out_files["deforestation_by_ring_year.csv"].rows,
    out_files["deforestation_by_ring_total.csv"].rows>>

\* C14 for 04_analyze_deforestation.py alone (this much holds): a run that
\* took the per-ring clip fallback holds, after the overlay step, the rows the primary overlay gives
\* for the same input; it ends in error exactly when those are none, and the
\* tables it writes are the aggregates of the primary overlay's rows.
C14_FallbackMatchesPrimary ==
  (script = "04_analyze" /\ path = "fallback") =>
    /\ opc = "error" <=> Overlay(prodes, rings) = {}
    /\ opc = "aggregate" => inter = Overlay(prodes, rings)
    /\ opc \in {"done", "crash"} =>
         /\ inter = WithArea(Overlay(prodes, rings))
         /\ AnalyzeTables = <<GroupByRingYear(WithArea(Overlay(prodes, rings))),
                              GroupByRing(WithArea(Overlay(prodes, rings)))>>

\* Such a run: a fallback run that ended normally with rows in three rings,
\* one source feature being cut into several rows.
C14_Witness ==
  /\ script = "04_analyze"
  /\ path = "fallback"
  /\ opc = "done"
  /\ Cardinality({r.ring_id : r \in inter}) = 3
  /\ \E a, b \in inter : a.src = b.src /\ a.ring_id # b.ring_id

\* A script with a fallback path ran on valid input on which gpd.overlay
\* raises: there is a year column and the filters left rows.
FallbackCase ==
  /\ script \in {"04_intersection", "04_analyze"}
  /\ overlay_raises
  /\ find_year_col(prodes_cols) # NoCol
  /\ OverlayInput # {}

\* C14 (as claimed): in both scripts that have a fallback, a run on which
\* the overlay raised ends with the intersection rows the primary overlay
\* yields for that input, an empty set included.
C14_FallbackYieldsPrimaryRows ==
  (OverlayEnded /\ FallbackCase) =>
    /\ path = "fallback"
    /\ {[ring_id |-> r.ring_id, year |-> r.year, geometry |-> r.geometry] :
          r \in inter}
         = {[ring_id |-> r.ring_id, year |-> r.year, geometry |-> r.geometry] :
              r \in Overlay(OverlayInput, RingRows(rings_shp))}

\* What the overlay gives when the deforestation rows are not first clipped
\* to the bounding box of the rings.
NoPreClipRows ==
  IF script = "05_precompute"
  THEN Overlay(fix_geoms(LoadProdes(prodes_shp, prodes_cols)),
               fix_geoms(RingRows(rings_shp)))
  ELSE Overlay(LoadProdes(prodes_shp, prodes_cols), RingRows(rings_shp))

\* A run of one of the scripts in ss, on input with a year column and
\* geometries the overlay accepts, has ended having written the feature file
\* and the two tables that the overlay of the unclipped rows gives.
PreClipInvisible(ss) ==
  (/\ script \in ss
   /\ OverlayEnded
   /\ ~overlay_raises
   /\ find_year_col(prodes_cols) # NoCol) =>
    LET rows == KeepCols(NormalizeYear(WithArea(NoPreClipRows)))
    IN /\ DOMAIN out_files = {"inter_prodes_rings.parquet", "by_ring_year.csv",
                              "by_ring_total.csv"}
       /\ out_files["inter_prodes_rings.parquet"].rows = rows
       /\ out_files["by_ring_year.csv"].rows = GroupByRingYear(rows)
       /\ out_files["by_ring_total.csv"].rows = GroupByRing(rows)

\* C15 (as claimed): in both scripts that pre-clip the deforestation rows to
\* the bounding box of the rings, the features and the two tables written
\* are those obtained without that step.
C15_PreClipHasNoEffect == PreClipInvisible({"04_intersection", "05_precompute"})

\* C15 for 05_precompute_intersections.py alone (this much holds).
PreClipInvisibleIn05 == PreClipInvisible({"05_precompute"})

\* The run got as far as calling gpd.overlay on the deforestation rows and
\* the rings.
OverlayAttempted ==
  \/ script = "05_precompute" /\ opc \in {"write", "done", "crash"}
  \/ script = "04_analyze" /\ path # "none"

\* C18 (as claimed): in every overlay script, when gpd.overlay raises the
\* run goes on with the per-ring clip fallback, and it ends in error only
\* when the fallback yields nothing either.
C18_OverlayFailureFallsBack ==
  (overlay_raises /\ OverlayAttempted) =>
    /\ path = "fallback"
    /\ opc = "error" => UNION ClipParts(prodes, rings) = {}

\* C19 (as claimed): 04_intersection.py, given both files and a year column,
\* ends having written the feature file and the two tables.
C19_IntersectionScriptFinishes ==
  (/\ script = "04_intersection"
   /\ OverlayEnded
   /\ find_year_col(prodes_cols) # NoCol) =>
    /\ opc = "done"
    /\ {"inter_prodes_rings.parquet", "by_ring_year.csv", "by_ring_total.csv"}
         \subseteq DOMAIN out_files

\* by_ring_year and by_ring hold one row per key, with the area of the
\* feature rows of that key.
TablesAreFunctionOfFile ==
  LET keys == {<<r.ring_id, YearAsInt(r.year)>> : r \in FeatureRows}
      ids == {r.ring_id : r \in FeatureRows}
  IN /\ {<<t.ring_id, t.year>> : t \in db["by_ring_year"]} = keys
     /\ Cardinality(db["by_ring_year"]) = Cardinality(keys)
     /\ \A t \in db["by_ring_year"] :
          t.area_ha = SumArea({r \in FeatureRows :
                                 /\ r.ring_id = t.ring_id
                                 /\ YearAsInt(r.year) = t.year})
     /\ {t.ring_id : t \in db["by_ring"]} = ids
     /\ Cardinality(db["by_ring"]) = Cardinality(ids)
     /\ \A t \in db["by_ring"] :
          t.area_ha = SumArea({r \in FeatureRows : r.ring_id = t.ring_id})

\* C17: whenever the store is built its two tables are that function of the
\* feature file, and a further run of 06_build_duckdb.py over the unchanged
\* file leaves every table as it was.
C17_RebuildLeavesTables ==
  /\ [](dpc = "built" => TablesAreFunctionOfFile)
  /\ [][(dpc = "built" /\ db_runs' = db_runs + 1) => db' = db]_vars

\* C17 witness: the store built twice over a file in which two feature rows
\* share a ring and a year, and which has three rings.
C17_Witness ==
  /\ dpc = "built"
  /\ db_runs = 2
  /\ Cardinality(db["by_ring"]) = 3
  /\ \E a, b \in FeatureRows :
       /\ a # b
       /\ a.ring_id = b.ring_id
       /\ YearAsInt(a.year) = YearAsInt(b.year)

\* The area, in hectares, of the parts of the rows that lie inside g.
RECURSIVE SumInside(_, _)
SumInside(rows, g) ==
  IF rows = {} THEN 0
  ELSE LET r == CHOOSE x \in rows : TRUE
       IN AreaHa(r.geometry \cap g) + SumInside(rows \ {r}, g)

MunGeom(name) == (CHOOSE m \in MunicipiosShp : m.MUN_NAME = name).geometry

\* C16 (as claimed): in the report and in the dashboard every municipality's
\* total is the area of the parts of the joined feature rows that lie inside
\* it, and the totals together do not exceed the area of the rows joined.
C16_MunicipalTotalsFollowOverlay ==
  cpc = "done" =>
    /\ \A t \in report.muni_total :
         t.area_ha = SumInside(report.joined, MunGeom(t.MUN_NAME))
    /\ SumArea(report.muni_total) <= SumArea(report.joined)

\* C20 (as claimed): over a store built from the empty outputs of an overlay
\* run, the dashboard and the report builders complete and show empty tables.
C20_EmptyStoreIsShownEmpty ==
  (/\ cpc # "idle"
   /\ StoreExists
   /\ FeatureFileExists
   /\ out_files["inter_prodes_rings.parquet"].rows = {}) =>
    /\ cpc = "done"
    /\ report.by_ring_year = {}
    /\ report.muni_total = {}

\* The message names the path p.
Names(named, p) == named = NamedFor(p)

Stages ==
  {"01_prepare_osm_rr", "02_prepare_prodes_rr", "03_create_buffers",
   "04_intersection", "04_analyze_deforestation",
   "05_precompute_intersections", "06_build_duckdb"}

\* The paths the write calls of each script name (to_file, to_parquet,
\* to_csv, savefig, duckdb.connect).
Writes(stage) ==
  CASE stage = "01_prepare_osm_rr" -> {AoiPath, RoadsPath}
    [] stage = "02_prepare_prodes_rr" ->
         {ProdesPath, "data/processed/deforestation_rr_preview.geojson"}
    [] stage = "03_create_buffers" ->
         {"data/processed/buffers/roads_buffer_*km.shp", RingsPath,
          "data/processed/buffers/buffer_rings_preview.geojson"}
    [] stage = "04_intersection" -> {ParquetPath, CsvRingYear, CsvRing}
    [] stage = "04_analyze_deforestation" ->
         {"outputs/tabelas/deforestation_by_ring_year.csv",
          "outputs/tabelas/deforestation_by_ring_total.csv",
          "outputs/mapas/recorte_preview.geojson",
          "outputs/graficos/area_por_faixa.png"}
    [] stage = "05_precompute_intersections" ->
         {ParquetPath, CsvRingYear, CsvRing}
    [] stage = "06_build_duckdb" -> {DbPath}

\* The paths a script reads, as a set.
ReadSet(stage) == {Reads(stage)[k] : k \in DOMAIN Reads(stage)}

\* The position of a script in the pipeline: the number its name starts with.
StageNo(stage) ==
  CASE stage = "01_prepare_osm_rr" -> 1
    [] stage = "02_prepare_prodes_rr" -> 2
    [] stage = "03_create_buffers" -> 3
    [] stage = "04_intersection" -> 4
    [] stage = "04_analyze_deforestation" -> 4
    [] stage = "05_precompute_intersections" -> 5
    [] stage = "06_build_duckdb" -> 6

\* A run writes only paths its script's write calls name.
WritesWithinWriteSet ==
  run.stage # "none" => run.wrote \subseteq Writes(run.stage)

\* C21: no file written by a run is a file that another stage writes, nor a
\* file that the same stage or an earlier one reads as input.
C21_WriteSetsDisjoint ==
  (run.stage # "none" /\ run.wrote # {}) =>
    /\ \A t \in Stages \ {run.stage} : run.wrote \cap Writes(t) = {}
    /\ \A t \in Stages :
         StageNo(t) <= StageNo(run.stage) => run.wrote \cap ReadSet(t) = {}

\* ------------------------------------------- the feature file: attributes
\* The feature file of 04_intersection.py and 05_precompute_intersections.py
\* has been written.
FeatureFileWritten ==
  /\ script \in {"04_intersection", "05_precompute"}
  /\ FeatureFileExists

\* Every row of the feature file lies in the ring whose ring_id it carries and
\* has the (normalised) year of the feature it was cut from.
RowsCarryRingAndYear ==
  FeatureFileWritten =>
    \A r \in FeatureRows :
      /\ \E g \in RingRows(rings_shp) :
           g.ring_id = r.ring_id /\ r.geometry \subseteq g.geometry
      /\ r.year \in {prodes_shp[r.src].year, YearAsInt(prodes_shp[r.src].year)}
      /\ r.geometry \subseteq prodes_shp[r.src].geometry

\* The columns of the feature file are the four of the claim once the name of
\* the year column is folded to lower case.
ColumnsUpToCase ==
  FeatureFileWritten =>
    {Lower(c) : c \in out_files["inter_prodes_rings.parquet"].columns}
      = {"ring_id", "year", "area_ha", "geometry"}

\* Apart from the spelling of the year column's name this much holds: four
\* attributes, the ring_id of the ring and the year of the source feature, no
\* other attribute in any row. (src is the row number the model keeps with
\* each row to name its source feature.)
FourAttributesUpToCase ==
  /\ ColumnsUpToCase
  /\ RowsCarryRingAndYear
  /\ FeatureFileWritten =>
       \A r \in FeatureRows :
         DOMAIN r = {"src", "ring_id", "year", "area_ha", "geometry"}

\* A feature file with rows, cut from an input that had a class attribute.
FourAttributesCase ==
  /\ FeatureFileWritten
  /\ FeatureRows # {}
  /\ "main_class" \in prodes_cols
  /\ \E k \in DOMAIN prodes_shp : prodes_shp[k].main_class = "RESIDUO"

\* C22: every feature written by 04_intersection.py and
\* 05_precompute_intersections.py carries exactly the attributes ring_id (of
\* the ring it was clipped to), year (of its source feature), area_ha and
\* geometry; every other attribute is dropped.
C22_ExactlyFourAttributes ==
  /\ RowsCarryRingAndYear
  /\ FeatureFileWritten =>
       out_files["inter_prodes_rings.parquet"].columns
         = {"ring_id", "year", "area_ha", "geometry"}

\* ------------------------------------------------ the feature file: areas
\* C23: every feature of the feature file has as area_ha the area of its own
\* clipped geometry divided by 10,000, also when the deforestation input
\* brought an area_ha attribute of its own.
C23_AreaRecomputed ==
  FeatureFileWritten =>
    \A r \in FeatureRows : r.area_ha = AreaHa(r.geometry)

\* A feature file cut from an input with an area_ha column, one row of which
\* is smaller than the feature it was cut from.
C23_Witness ==
  /\ FeatureFileWritten
  /\ "area_ha" \in prodes_cols
  /\ \E r \in FeatureRows :
       AreaHa(r.geometry) < AreaHa(prodes_shp[r.src].geometry)

\* ------------------------------------------------- the feature file: year
\* A year held in tenths is an integer year.
IsIntYear(y) == y # None /\ y % 10 = 0

\* When every input year can be converted the written years are integers.
ConvertibleYearsAreInt ==
  (FeatureFileWritten /\ \A k \in DOMAIN prodes_shp : prodes_shp[k].year # None)
    => /\ \A r \in FeatureRows : IsIntYear(r.year)
       /\ FeatureRows # {} =>
            out_files["inter_prodes_rings.parquet"].year_dtype = "int"

\* C24: every feature of the feature file has an integer year, whatever form
\* the year had on input: integer, floating point, or missing.
C24_YearIsInteger ==
  (FeatureFileWritten /\ FeatureRows # {}) =>
    /\ out_files["inter_prodes_rings.parquet"].year_dtype = "int"
    /\ \A r \in FeatureRows : IsIntYear(r.year)

\* -------------------------------------------------------------- _fix_geoms
\* A geometry that is one polygon: not null, a single part.
IsSinglePolygon(geom) == geom # {} /\ Components(geom) = {geom}

C26_NoConnectionLeftOpen ==
  /\ open_cons = 0
  /\ query # NoQuery => query.read_only

\* The store was built, and the last query raised.
C26_Witness ==
  /\ DbPath \in disk
  /\ run.stage # "none"
  /\ query # NoQuery
  /\ query.outcome = "raised"

\* ------------------------------------------------ ring builder: the labels
\* With integer-valued distances the labels and the buffer files are distinct.
IntegerDistancesGiveDistinctLabels ==
  (pc = "done" /\ \A k \in DOMAIN buffers : buffers[k].d % 10 = 0) =>
    /\ \A i, j \in DOMAIN Rings : i # j => Rings[i].ring_id # Rings[j].ring_id
    /\ Cardinality(DOMAIN buf_files) = Len(buffers)

\* C27: for pairwise distinct distances, non-integer ones included, the rings
\* written have pairwise distinct ring_id labels and every distance's buffer
\* is in a file of its own.
C27_LabelsAndFilesDistinct ==
  pc = "done" =>
    /\ \A i, j \in DOMAIN Rings : i # j => Rings[i].ring_id # Rings[j].ring_id
    /\ Cardinality(DOMAIN buf_files) = Len(buffers)
    /\ \A k \in DOMAIN buffers :
         buf_files[BufferFileName(buffers[k].d)].dist_km = buffers[k].d

\* ----------------------------------------------- ring builder: the batches
\* The batches logged for distance d, in the order they ran.
LotsOf(d) == SelectSeq(log, LAMBDA e : e.kind = "lot" /\ e.d = d)

\* buffer_in_chunks has returned for the distance at position k of dists_km.
Returned(k) == k < di \/ (k = di /\ pc = "chunk" /\ ci >= Len(roads_m))

\* C28: with N road segments and chunk size c the batches of
\* buffer_in_chunks are the ranges [0,c), [c,2c), ... up to N, one after the
\* other in increasing order; when it returns every segment has been in
\* exactly one batch, and the next batch starts where the last one appended
\* ended.
C28_BatchesInOrder ==
  \A k \in DOMAIN dists_km :
    LET lots == LotsOf(dists_km[k])
        N == Len(roads_m)
        c == chunk_size
    IN /\ \A n \in DOMAIN lots :
            /\ lots[n].i = (n - 1) * c
            /\ lots[n].j = Min(n * c, N)
       /\ Returned(k) =>
            \A x \in 0..(N - 1) :
              Cardinality({n \in DOMAIN lots :
                             lots[n].i <= x /\ x < lots[n].j}) = 1
       /\ (k = di /\ pc = "chunk") =>
            /\ ci = Len(lots) * c
            /\ Len(parts) <= Len(lots)

\* A run of two segments in batches of one: the second batch of a distance has
\* run after the first one was appended.
C28_Witness ==
  /\ pc = "chunk"
  /\ chunk_size = 1
  /\ Len(roads_m) = 2
  /\ Len(LotsOf(dists_km[di])) = 2
  /\ Len(parts) = 2

\* ------------------------------------------------- the report: year range
\* A request that meets the years of the store gives a range inside them.
OverlappingRequestIsClamped ==
  (report.kind = "pdf" /\ cons.years # <<>>
     /\ cons.years[1] <= cons.years[2]
     /\ cons.years[1] * 10 <= MaxYear(db["by_ring_year"])
     /\ cons.years[2] * 10 >= MinYear(db["by_ring_year"]))
    => /\ MinYear(db["by_ring_year"]) <= report.y_min
       /\ report.y_min <= report.y_max
       /\ report.y_max <= MaxYear(db["by_ring_year"])

\* C29: for every year pair (a, b) asked of build_pdf or build_pdf_bytes and
\* every store with years y0..y1, the range the report uses satisfies
\* y0 <= y_min <= y_max <= y1.
C29_EffectiveRangeInsideStore ==
  report.kind = "pdf" =>
    /\ MinYear(db["by_ring_year"]) <= report.y_min
    /\ report.y_min <= report.y_max
    /\ report.y_max <= MaxYear(db["by_ring_year"])

\* -------------------------------------------- the dashboard: applied filters
\* The ring ids of the ring file the dashboard reads.
KnownRings == {rings_shp[k].ring_id : k \in DOMAIN rings_shp}

\* C30: across the reruns of a dashboard session the applied filters, once
\* the session has them, change only in a rerun where the form was submitted;
\* and whenever a ring exists the applied rings are a non-empty subset of the
\* known rings (a submit with no ring selected applies all of them).
C30_FiltersChangeOnSubmitOnly ==
  /\ [][(applied_filters # NoFilters /\ applied_filters' # applied_filters)
          => cons'.submitted]_vars
  /\ []((applied_filters # NoFilters /\ KnownRings # {})
          => /\ applied_filters.rings # {}
             /\ applied_filters.rings \subseteq KnownRings)

\* A rerun with the form submitted has replaced the default rings by all the
\* rings and applied a municipality selection.
C30_Witness ==
  /\ cons.who = "app"
  /\ cons.submitted
  /\ cpc = "done"
  /\ Cardinality(KnownRings) > 1
  /\ applied_filters.rings = KnownRings
  /\ applied_filters.municipios # {}

====
